---- MODULE Spec2Model ----
(***************************************************************************)
(* Model of the submission evaluation engine of learn-sql-backend:         *)
(*   - ValidatorService (statement classifier and SQLite sandbox),         *)
(*   - AIService (feedback cache, retry loop, fallback rule).              *)
(* SQL text and service replies are sequences of one-character strings, so *)
(* that trim, toUpperCase, includes, startsWith and split are computed on  *)
(* characters, as the code computes them.                                  *)
(***************************************************************************)
EXTENDS Integers, Sequences, FiniteSets, TLC

VARIABLES
    \* ---- ValidatorService.run ----
    vpc,        \* position of the run call: idle / pending / returned
    vsql,       \* the text handed to run
    vmaxRows,   \* the maxRows option of the call
    vret,       \* the value run resolved with
    db,         \* the sandbox store of the call: none / open / closed
    dbCreated,  \* number of sqlite3.Database objects constructed
    closeCalls, \* number of db.close() calls issued
    executed,   \* the texts handed to db.all
    timer,      \* the timeout timer: none / armed / fired / cleared
    query,      \* the db.all callback: none / pending / done
    engine,     \* what db.all handed to its callback
    seededAt,   \* CURRENT_TIMESTAMP when the store of the call was seeded
    runs,       \* the earlier calls of run: their text and result
    \* ---- AIService ----
    maxRetries,     \* config.maxRetries
    responseCache,  \* key -> [response, timestamp]; NoEntry when absent
    now,            \* Date.now()
    ticks,          \* number of clock steps taken
    call,           \* per caller: the generateFeedback invocation
    \* ---- PracticeService.evaluateSubmission ----
    epc,        \* position of the call: idle / validating / feedback / done
    esql,       \* the sql of the submitted EvaluateDto
    eraised,    \* the exception the call raised, "none" when it has not
    eresult,    \* the EvaluationResult the call returned
    \* ---- ValidatorService.normalizeResult ----
    nin,        \* a result set and a permutation of it
    nkeys       \* the comparison keys computed for the two

validatorVars == <<vpc, vsql, vmaxRows, vret, db, dbCreated, closeCalls, executed, timer,
                   query, engine, seededAt, runs>>
aiVars == <<maxRetries, responseCache, now, ticks, call>>
practiceVars == <<epc, esql, eraised, eresult>>
normalizerVars == <<nin, nkeys>>
vars == <<validatorVars, aiVars, practiceVars, normalizerVars>>

----------------------------------------------------------------------------
(* Bounds of the model *)

\* Longest generated SQL text, in fragments.
MaxPieces == 3

----------------------------------------------------------------------------
(* Characters and the string functions the code uses *)

LowerLetters == <<"a","b","c","d","e","f","g","h","i","j","k","l","m",
                  "n","o","p","q","r","s","t","u","v","w","x","y","z">>
UpperLetters == <<"A","B","C","D","E","F","G","H","I","J","K","L","M",
                  "N","O","P","Q","R","S","T","U","V","W","X","Y","Z">>

WhiteSpace == {" ", "\n", "\t"}

UpperChar(c) ==
    IF \E i \in 1..26 : LowerLetters[i] = c
    THEN UpperLetters[CHOOSE i \in 1..26 : LowerLetters[i] = c]
    ELSE c

LowerChar(c) ==
    IF \E i \in 1..26 : UpperLetters[i] = c
    THEN LowerLetters[CHOOSE i \in 1..26 : UpperLetters[i] = c]
    ELSE c

toUpperCase(s) == [i \in 1..Len(s) |-> UpperChar(s[i])]

toLowerCase(s) == [i \in 1..Len(s) |-> LowerChar(s[i])]

trim(s) ==
    LET keep == {i \in 1..Len(s) : s[i] \notin WhiteSpace}
    IN  IF keep = {} THEN <<>>
        ELSE LET lo == CHOOSE i \in keep : \A j \in keep : i <= j
                 hi == CHOOSE i \in keep : \A j \in keep : j <= i
             IN  SubSeq(s, lo, hi)

includes(s, sub) ==
    \E i \in 0..(Len(s) - Len(sub)) : SubSeq(s, i + 1, i + Len(sub)) = sub

startsWith(s, prefix) ==
    /\ Len(prefix) <= Len(s)
    /\ SubSeq(s, 1, Len(prefix)) = prefix

\* String.prototype.split with a one-character separator: the segments between
\* the separators, empty segments kept; "" splits into one empty segment.
RECURSIVE split(_, _)
split(s, sep) ==
    LET at == {i \in 1..Len(s) : s[i] = sep}
    IN  IF at = {} THEN <<s>>
        ELSE LET i == CHOOSE k \in at : \A j \in at : k <= j
             IN  <<SubSeq(s, 1, i - 1)>> \o split(SubSeq(s, i + 1, Len(s)), sep)

----------------------------------------------------------------------------
(* ValidatorService: statement classifier *)

ALLOWED_STATEMENTS == << <<"S","E","L","E","C","T">> >>

FORBIDDEN_KEYWORDS == <<
    <<"D","R","O","P">>, <<"D","E","L","E","T","E">>, <<"U","P","D","A","T","E">>,
    <<"I","N","S","E","R","T">>, <<"A","L","T","E","R">>, <<"C","R","E","A","T","E">>,
    <<"T","R","U","N","C","A","T","E">>, <<"R","E","P","L","A","C","E">>,
    <<"M","E","R","G","E">>, <<"C","A","L","L">>, <<"E","X","P","L","A","I","N">>,
    <<"L","O","C","K">>, <<"G","R","A","N","T">>, <<"R","E","V","O","K","E">> >>

\* A ValidationResult's error: null, or a message.  The message is kept as its
\* template (kind) and the text interpolated into it (detail, a sequence of
\* strings: the characters of a keyword or word, or an engine message).
NoError == [kind |-> "null", detail |-> <<>>]
ErrorOf(kind, detail) == [kind |-> kind, detail |-> detail]

NoResult == [present |-> FALSE, columns |-> <<>>, rows |-> <<>>]
ResultOf(columns, rows) == [present |-> TRUE, columns |-> columns, rows |-> rows]

ValidationResult(error, result) == [error |-> error, result |-> result]

\* `${trimmedSQL.split(' ')[0]}`
LeadingWord(trimmedSQL) == split(trimmedSQL, " ")[1]

\* Mutant of NonBlank: the segment is tested without trimming it.
NonBlank_Untrimmed(s) == s # <<>>

\* sql.split(';').filter(s => s.trim())
NonBlank(s) == trim(s) # <<>>
Statements(sql) == SelectSeq(split(sql, ";"), NonBlank)

\* Mutant of KeywordHit: the keyword is looked for at the start of the text only.
KeywordHit_StartOnly(trimmedSQL, keyword) == startsWith(trimmedSQL, keyword)

\* The keyword test of the forbidden-keyword loop.
KeywordHit(trimmedSQL, keyword) == includes(trimmedSQL, keyword)

\* for (const keyword of FORBIDDEN_KEYWORDS) if (...) return: the first keyword
\* of the list, in list order, that the text includes; 0 when none.
FirstForbidden(trimmedSQL) ==
    LET hits == {k \in 1..Len(FORBIDDEN_KEYWORDS) : KeywordHit(trimmedSQL, FORBIDDEN_KEYWORDS[k])}
    IN  IF hits = {} THEN 0 ELSE CHOOSE k \in hits : \A j \in hits : k <= j

\* Mutant of StartsWithAllowed: the verb may stand anywhere in the text.
StartsWithAllowed_Anywhere(trimmedSQL) ==
    \E k \in 1..Len(ALLOWED_STATEMENTS) : includes(trimmedSQL, ALLOWED_STATEMENTS[k])

StartsWithAllowed(trimmedSQL) ==
    \E k \in 1..Len(ALLOWED_STATEMENTS) : startsWith(trimmedSQL, ALLOWED_STATEMENTS[k])

MultipleStatements(sql) == Len(Statements(sql)) > 1

\* Mutant of preValidateSQL: the leading verb is tested before the keywords.
preValidateSQL_VerbFirst(sql) ==
    LET trimmedSQL == toUpperCase(trim(sql))
        k == FirstForbidden(trimmedSQL)
    IN  IF trimmedSQL = <<>>
          THEN ValidationResult(ErrorOf("SQL query cannot be empty", <<>>), NoResult)
        ELSE IF ~StartsWithAllowed(trimmedSQL)
          THEN ValidationResult(ErrorOf("Only SELECT statements are allowed. Found", LeadingWord(trimmedSQL)), NoResult)
        ELSE IF k # 0
          THEN ValidationResult(ErrorOf("Operation not allowed", FORBIDDEN_KEYWORDS[k]), NoResult)
        ELSE IF MultipleStatements(sql)
          THEN ValidationResult(ErrorOf("Multiple statements are not allowed", <<>>), NoResult)
        ELSE ValidationResult(NoError, NoResult)

preValidateSQL(sql) ==
    LET trimmedSQL == toUpperCase(trim(sql))
        k == FirstForbidden(trimmedSQL)
    IN  IF trimmedSQL = <<>>
          THEN ValidationResult(ErrorOf("SQL query cannot be empty", <<>>), NoResult)
        ELSE IF k # 0
          THEN ValidationResult(ErrorOf("Operation not allowed", FORBIDDEN_KEYWORDS[k]), NoResult)
        ELSE IF ~StartsWithAllowed(trimmedSQL)
          THEN ValidationResult(ErrorOf("Only SELECT statements are allowed. Found", LeadingWord(trimmedSQL)), NoResult)
        ELSE IF MultipleStatements(sql)
          THEN ValidationResult(ErrorOf("Multiple statements are not allowed", <<>>), NoResult)
        ELSE ValidationResult(NoError, NoResult)

----------------------------------------------------------------------------
(* The SQL texts submitted to run *)

Fragments == {
    <<"S","e","l","e","c","T">>,
    <<" ","1">>,
    <<";">>,
    <<" ">>,
    <<"\n">>,
    <<"e","d">>,
    <<"s","h","o","w">>,
    <<"d","R">>,
    <<"o","p">>,
    <<"c","r","e","a","t","e","d","_","a","t">> }

RECURSIVE Generated(_)
Generated(n) ==
    IF n = 0 THEN {<<>>}
    ELSE LET shorter == Generated(n - 1)
         IN  shorter \cup {t \o f : t \in shorter, f \in Fragments}

\* "SELECT * FROM users;", "DROP TABLE users;", "SELECT 1; SELECT 2;"
Scenarios == {
    <<"S","E","L","E","C","T"," ","*"," ","F","R","O","M"," ","u","s","e","r","s",";">>,
    <<"D","R","O","P"," ","T","A","B","L","E"," ","u","s","e","r","s",";">>,
    <<"S","E","L","E","C","T"," ","1",";"," ","S","E","L","E","C","T"," ","2",";">> }

Texts == Generated(MaxPieces) \cup Scenarios

----------------------------------------------------------------------------
(* ValidatorService: run and the sandbox executor *)

NotReturned == ValidationResult(ErrorOf("<not returned>", <<>>), NoResult)

\* The maxRows option of a call (practice passes 100; the default is 1000).
MaxRowsChoices == {1, 2}

\* A row object of the engine: its (column, value) pairs in column order.
RowObject(id, name) == << <<"id", id>>, <<"name", name>> >>

\* What db.all hands to its callback.
EngineOutcome(err, message, rows, unreadable) ==
    [err |-> err, message |-> message, rows |-> rows, unreadable |-> unreadable]

NoOutcome == EngineOutcome(FALSE, "<none>", <<>>, FALSE)

\* What db.all hands to its callback: an error, the rows, or (unreadable) a
\* rows value the success branch cannot process, so that its catch runs.
EngineOutcomes ==
    { EngineOutcome(TRUE, "no such table: orders", <<>>, FALSE),
      EngineOutcome(FALSE, "", <<>>, TRUE),
      EngineOutcome(FALSE, "", <<>>, FALSE),
      EngineOutcome(FALSE, "", << RowObject("1", "John Doe") >>, FALSE),
      EngineOutcome(FALSE, "",
                    << RowObject("1", "John Doe"), RowObject("2", "Jane Smith"),
                       RowObject("3", "Bob Johnson") >>, FALSE) }

\* Mutant of slice: the cap is not applied.
slice_Uncapped(rows, n) == rows

\* rows.slice(0, maxRows)
slice(rows, n) == SubSeq(rows, 1, IF n < Len(rows) THEN n ELSE Len(rows))

\* Object.keys(row)
ObjectKeys(row) == [i \in 1..Len(row) |-> row[i][1]]

\* Mutant of Property: every cell is read from the first column.
Property_FirstColumn(row, col) == row[1][2]

\* row[col]
Property(row, col) == row[CHOOSE i \in 1..Len(row) : row[i][1] = col][2]

\* The success branch of the db.all callback.
ShapeResult(rows, maxRows) ==
    LET limitedRows == slice(rows, maxRows)
        columns == IF Len(limitedRows) > 0 THEN ObjectKeys(limitedRows[1]) ELSE <<>>
        rowsArray == [r \in 1..Len(limitedRows) |->
                        [c \in 1..Len(columns) |-> Property(limitedRows[r], columns[c])]]
    IN  ValidationResult(NoError, ResultOf(columns, rowsArray))

\* Mutant of EngineErrorResult: the engine's error is dropped.
EngineErrorResult_Swallowed(message) == ValidationResult(NoError, NoResult)

\* resolve({ error: `SQL Error: ${err.message}` })
EngineErrorResult(message) == ValidationResult(ErrorOf("SQL Error", <<message>>), NoResult)

\* The value the db.all callback resolves with.
CallbackResult(outcome, maxRows) ==
    IF outcome.err THEN EngineErrorResult(outcome.message)
    ELSE IF outcome.unreadable
         THEN ValidationResult(ErrorOf("Result processing error", <<>>), NoResult)
         ELSE ShapeResult(outcome.rows, maxRows)

\* Mutant of ShortCircuits: the pre-validation verdict is ignored.
ShortCircuits_Never(preValidation) == FALSE

\* if (preValidation.error) return preValidation;
ShortCircuits(preValidation) == preValidation.error # NoError

\* Mutant of Resolve: a later resolution replaces the settled value.
Resolve_LastWins(value) == vpc' = "returned" /\ vret' = value

\* resolve(value): the first resolution settles the promise, later ones are ignored.
Resolve(value) ==
    IF vpc = "pending"
    THEN vpc' = "returned" /\ vret' = value
    ELSE UNCHANGED <<vpc, vret>>

\* Mutant of StoreAfterTimeout: the timer callback leaves the store open.
StoreAfterTimeout_Leaked == "open"

\* db.close() in the timer callback.
StoreAfterTimeout == "closed"

\* CURRENT_TIMESTAMP of the store: the wall clock in whole seconds.
CURRENT_TIMESTAMP == now \div 1000

\* The synchronous part of executeSQLInSandbox: store constructed and seeded,
\* timer armed, query queued.
OpenSandbox(sql) ==
    /\ vpc' = "pending"
    /\ vret' = NotReturned
    /\ db' = "open"
    /\ dbCreated' = dbCreated + 1
    /\ seededAt' = CURRENT_TIMESTAMP
    /\ timer' = "armed"
    /\ executed' = Append(executed, sql)
    /\ query' = "pending"
    /\ engine' = NoOutcome
    /\ UNCHANGED closeCalls

\* run(sql, {maxRows}): pre-validation and, for an allowed text, the synchronous
\* part of executeSQLInSandbox; constructed = FALSE is the constructor throwing,
\* caught by run's catch.
Run(sql) ==
    /\ vsql' = sql
    /\ LET preValidation == preValidateSQL(sql)
       IN  IF ShortCircuits(preValidation)
           THEN /\ vpc' = "returned"
                /\ vret' = preValidation
                /\ UNCHANGED <<vmaxRows, db, dbCreated, closeCalls, executed, timer,
                               query, engine, seededAt>>
           ELSE \E maxRows \in MaxRowsChoices, constructed \in BOOLEAN :
                  /\ vmaxRows' = maxRows
                  /\ IF ~constructed
                     THEN /\ vpc' = "returned"
                          /\ vret' = ValidationResult(ErrorOf("Execution error", <<>>), NoResult)
                          /\ UNCHANGED <<db, dbCreated, closeCalls, executed, timer,
                                         query, engine, seededAt>>
                     ELSE OpenSandbox(sql)

\* A caller invokes run with some text.
RunCall ==
    /\ vpc = "idle"
    /\ \E sql \in Texts : Run(sql)
    /\ UNCHANGED runs
    /\ UNCHANGED <<aiVars, practiceVars, normalizerVars>>

\* The setTimeout callback: db.close(); resolve({error: 'Query execution timeout'}).
TimeoutFire ==
    /\ timer = "armed"
    /\ timer' = "fired"
    /\ db' = StoreAfterTimeout
    /\ closeCalls' = closeCalls + 1
    /\ Resolve(ValidationResult(ErrorOf("Query execution timeout", <<>>), NoResult))
    /\ UNCHANGED <<vsql, vmaxRows, dbCreated, executed, query, engine, seededAt, runs>>
    /\ UNCHANGED <<aiVars, practiceVars, normalizerVars>>

\* The db.all callback handed outcome: clearTimeout, then the error branch, the
\* success branch or its catch, each closing the store and resolving.
Callback(outcome) ==
    /\ query' = "done"
    /\ engine' = outcome
    /\ timer' = IF timer = "armed" THEN "cleared" ELSE timer
    /\ db' = "closed"
    /\ closeCalls' = closeCalls + 1
    /\ Resolve(CallbackResult(outcome, vmaxRows))
    /\ UNCHANGED <<vsql, vmaxRows, dbCreated, executed, seededAt, runs>>

\* The db.all callback, for whatever the engine hands it.
QueryCallback ==
    /\ query = "pending"
    /\ \E outcome \in EngineOutcomes : Callback(outcome)
    /\ UNCHANGED <<aiVars, practiceVars, normalizerVars>>

ValidatorInit ==
    /\ vpc = "idle"
    /\ vsql = <<>>
    /\ vmaxRows = 0
    /\ vret = NotReturned
    /\ db = "none"
    /\ dbCreated = 0
    /\ closeCalls = 0
    /\ executed = <<>>
    /\ timer = "none"
    /\ query = "none"
    /\ engine = NoOutcome
    /\ seededAt = 0
    /\ runs = <<>>

ValidatorNext ==
    \/ RunCall
    \/ TimeoutFire
    \/ QueryCallback

----------------------------------------------------------------------------
(* AIService: contexts, payloads, fallback rule, cache key *)

\* Clock steps a behaviour may take.
MaxTicks == 2

\* Largest configured AI_MAX_RETRIES tried.
MaxRetriesTried == 2

CACHE_TTL == 3600000

RETRY_DELAY == 2000

\* The concurrent generateFeedback invocations, numbered in the order they start.
Callers == {1, 2}

\* An SQLContext.  validationError "" stands for an absent error: every test
\* the code makes on it (if (...), || null) treats undefined and "" alike.
SQLContext(userSQL, userResult, isCorrect, validationError) ==
    [userSQL |-> userSQL, userResult |-> userResult, exercisePrompt |-> "List all users",
     difficulty |-> "intro", isCorrect |-> isCorrect, validationError |-> validationError]

SqlPlain  == <<"S","e","l","e","c","t"," ","1">>
SqlPadded == <<" ","s","e","l","e","c","t"," ","1","\n">>

OneRow   == ResultOf(<<"id", "name">>, << <<"1", "John Doe">> >>)
OtherRow == ResultOf(<<"id", "name">>, << <<"2", "Jane Smith">> >>)
Swapped  == ResultOf(<<"name", "id">>, << <<"John Doe", "1">> >>)
TwoRows  == ResultOf(<<"id", "name">>, << <<"1", "John Doe">>, <<"2", "Jane Smith">> >>)

EngineError == "SQL Error: no such table: orders"

Contexts == {
    SQLContext(SqlPlain,  OneRow,   TRUE,  ""),
    SQLContext(SqlPadded, OtherRow, TRUE,  ""),
    SQLContext(SqlPlain,  Swapped,  TRUE,  ""),
    SQLContext(SqlPlain,  TwoRows,  TRUE,  ""),
    SQLContext(SqlPlain,  NoResult, FALSE, EngineError),
    SQLContext(SqlPlain,  OneRow,   TRUE,  EngineError),
    SQLContext(SqlPlain,  NoResult, TRUE,  ""),
    SQLContext(SqlPlain,  OneRow,   FALSE, "") }

\* An AIResponse; feedback is the text as a sequence of pieces (the characters of
\* a service reply, or the literal and interpolated parts of a template).
AIResponse(feedback, suggestions) ==
    [feedback |-> feedback, suggestions |-> suggestions, explanation |-> "", nextSteps |-> <<>>]

NoResponse == AIResponse(<<"<no response>">>, <<>>)

\* Mutant of getFallbackResponse: the success case is tested before the error case.
getFallbackResponse_SuccessFirst(context) ==
    IF context.isCorrect /\ context.userResult.present
    THEN AIResponse(
           <<"Great job! Your query executed successfully and returned ",
             ToString(Len(context.userResult.rows)),
             " row(s). Your SQL syntax is correct and you're getting real data from the database. Keep practicing with more complex queries!">>,
           <<"Try adding WHERE clauses", "Experiment with different column selections">>)
    ELSE IF context.validationError # ""
    THEN AIResponse(
           <<"I encountered an issue with your SQL query: ", context.validationError,
             ". Please check your syntax and try again. Remember, only SELECT statements are allowed in this exercise.">>,
           <<"Check your SQL syntax", "Ensure you're using SELECT statements only">>)
    ELSE AIResponse(
           <<"Your query has been processed. The AI tutor is temporarily unavailable, but you can continue practicing. Check if your query returns the expected results.">>,
           <<"Review the exercise requirements", "Test your query step by step">>)

getFallbackResponse(context) ==
    IF context.validationError # ""
    THEN AIResponse(
           <<"I encountered an issue with your SQL query: ", context.validationError,
             ". Please check your syntax and try again. Remember, only SELECT statements are allowed in this exercise.">>,
           <<"Check your SQL syntax", "Ensure you're using SELECT statements only">>)
    ELSE IF context.isCorrect /\ context.userResult.present
    THEN AIResponse(
           <<"Great job! Your query executed successfully and returned ",
             ToString(Len(context.userResult.rows)),
             " row(s). Your SQL syntax is correct and you're getting real data from the database. Keep practicing with more complex queries!">>,
           <<"Try adding WHERE clauses", "Experiment with different column selections">>)
    ELSE AIResponse(
           <<"Your query has been processed. The AI tutor is temporarily unavailable, but you can continue practicing. Check if your query returns the expected results.">>,
           <<"Review the exercise requirements", "Test your query step by step">>)

\* Mutant of createCacheKey: the validation error is left out of the key.
createCacheKey_WithoutError(context) ==
    [sql |-> toLowerCase(trim(context.userSQL)),
     prompt |-> context.exercisePrompt,
     error |-> "",
     isCorrect |-> context.isCorrect,
     resultColumns |-> IF context.userResult.present THEN context.userResult.columns ELSE <<>>,
     resultRowCount |-> IF context.userResult.present THEN Len(context.userResult.rows) ELSE 0]

\* Mutant of createCacheKey: the SQL goes into the key as typed.
createCacheKey_SqlAsTyped(context) ==
    [sql |-> context.userSQL,
     prompt |-> context.exercisePrompt,
     error |-> context.validationError,
     isCorrect |-> context.isCorrect,
     resultColumns |-> IF context.userResult.present THEN context.userResult.columns ELSE <<>>,
     resultRowCount |-> IF context.userResult.present THEN Len(context.userResult.rows) ELSE 0]

\* The keyData object; JSON.stringify and base64 encode it injectively.
createCacheKey(context) ==
    [sql |-> toLowerCase(trim(context.userSQL)),
     prompt |-> context.exercisePrompt,
     error |-> context.validationError,
     isCorrect |-> context.isCorrect,
     resultColumns |-> IF context.userResult.present THEN context.userResult.columns ELSE <<>>,
     resultRowCount |-> IF context.userResult.present THEN Len(context.userResult.rows) ELSE 0]

\* parseAIResponse: feedback: aiMessage.trim()
parseAIResponse(aiMessage) == AIResponse(trim(aiMessage), <<>>)

\* What one fetch attempt ends in: a failure (fetch rejects, the deadline aborts
\* it, a non-200 status, a body that is not JSON), or a 200 reply whose body
\* carries a response field (hasResponse) with some text.
Failures == {"network", "AbortError", "status", "json"}

Replies == { [hasResponse |-> FALSE, response |-> <<>>],
             [hasResponse |-> TRUE,  response |-> <<>>],
             [hasResponse |-> TRUE,  response |-> <<" ", "\n">>],
             [hasResponse |-> TRUE,  response |-> <<" ", "o", "k", "\n">>] }

FetchOutcomes ==
    {[failure |-> f, hasResponse |-> FALSE, response |-> <<>>] : f \in Failures}
    \cup {[failure |-> "", hasResponse |-> r.hasResponse, response |-> r.response] : r \in Replies}

\* data.response || 'No response from AI'
aiMessageOf(data) ==
    IF data.hasResponse /\ data.response # <<>> THEN data.response ELSE <<"No response from AI">>

----------------------------------------------------------------------------
(* AIService: cache and the generateFeedback / callAI state machine *)

\* A generateFeedback invocation.  Beside the code's own locals (context,
\* cacheKey, attempt, the returned response) it records what the call did:
\*   lookup     what getCachedResponse found: absent / fresh / expired
\*   age        the age of the entry it found (0 when absent)
\*   outbound   fetches issued
\*   waits      2-second waits started
\*   okAttempt  the attempt that succeeded (0: none)
\*   lastData   how the last settled fetch ended: failed, or a 200 reply whose
\*              response field is unusable (missing, empty, blank) or is text
\*   inserted   whether cacheResponse ran
\*   after      the callers that had returned when this call started
IdleCall ==
    [pc |-> "idle", context |-> CHOOSE c \in Contexts : TRUE, cacheKey |-> <<>>,
     lookup |-> "none", age |-> 0, attempt |-> 0, outbound |-> 0,
     waits |-> 0, wakeAt |-> 0, okAttempt |-> 0, lastData |-> "none",
     inserted |-> FALSE, fellBack |-> FALSE,
     response |-> NoResponse, after |-> {}]

\* Mutant of Fresh: an entry never expires.
Fresh_Always(timestamp) == TRUE

\* (Date.now() - cached.timestamp) < CACHE_TTL
Fresh(timestamp) == (now - timestamp) < CACHE_TTL

HasEntry(key) == key \in DOMAIN responseCache

\* getCachedResponse: what it returns ...
CacheHit(key) == HasEntry(key) /\ Fresh(responseCache[key].timestamp)

\* Mutant of AfterLookup: the entry is deleted whenever one is found.
AfterLookup_DeletesFound(key) ==
    IF HasEntry(key)
    THEN [k \in DOMAIN responseCache \ {key} |-> responseCache[k]]
    ELSE responseCache

\* ... and the cache it leaves: an entry that is not fresh is deleted.
AfterLookup(key) ==
    IF HasEntry(key) /\ ~Fresh(responseCache[key].timestamp)
    THEN [k \in DOMAIN responseCache \ {key} |-> responseCache[k]]
    ELSE responseCache

\* Mutant of cacheResponse: the entry is stored without the time of its insert.
cacheResponse_Unstamped(cache, key, response) ==
    [k \in DOMAIN cache \cup {key} |->
        IF k = key THEN [response |-> response, timestamp |-> 0] ELSE cache[k]]

\* Mutant of cacheResponse: the response is not stored.
cacheResponse_Dropped(cache, key, response) == cache

\* Mutant of cacheResponse: an entry already stored under the key is kept.
cacheResponse_KeepsFirst(cache, key, response) ==
    IF key \in DOMAIN cache THEN cache
    ELSE [k \in DOMAIN cache \cup {key} |->
            IF k = key THEN [response |-> response, timestamp |-> now] ELSE cache[k]]

\* cacheResponse: responseCache.set(key, {response, timestamp: Date.now()})
cacheResponse(cache, key, response) ==
    [k \in DOMAIN cache \cup {key} |->
        IF k = key THEN [response |-> response, timestamp |-> now] ELSE cache[k]]

\* Mutant of LoopTest: the loop runs one attempt too many.
LoopTest_OneMore(attempt) == attempt <= maxRetries + 1

\* for (...; attempt <= this.config.maxRetries; ...)
LoopTest(attempt) == attempt <= maxRetries

\* Mutant of WaitsBeforeRetry: the call waits after its last attempt too.
WaitsBeforeRetry_AfterLast(attempt) == attempt <= maxRetries

\* if (attempt < this.config.maxRetries) await 2 s
WaitsBeforeRetry(attempt) == attempt < maxRetries

\* The call leaves the loop without a response: throw lastError, caught by
\* generateFeedback, which returns the fallback response and caches nothing.
Thrown(c) ==
    [c EXCEPT !.pc = "done", !.fellBack = TRUE, !.response = getFallbackResponse(c.context)]

\* The loop head for the given attempt: issue the fetch, or leave the loop.
LoopHead(c, attempt) ==
    IF LoopTest(attempt)
    THEN [c EXCEPT !.pc = "fetching", !.attempt = attempt, !.outbound = c.outbound + 1,
                   !.wakeAt = 0]
    ELSE Thrown([c EXCEPT !.attempt = attempt, !.wakeAt = 0])

DataKind(outcome) ==
    IF outcome.failure # "" THEN "failed"
    ELSE IF ~outcome.hasResponse \/ trim(outcome.response) = <<>> THEN "unusable"
    ELSE "text"

\* generateFeedback up to its first await: createCacheKey, getCachedResponse and,
\* on a miss, callAI up to the first fetch.
StartFeedback(p, context) ==
    /\ call[p].pc = "idle"
    /\ \A q \in Callers : q < p => call[q].pc # "idle"
    /\ LET cacheKey == createCacheKey(context)
           started == [call[p] EXCEPT
                         !.context = context,
                         !.cacheKey = cacheKey,
                         !.age = IF HasEntry(cacheKey) THEN now - responseCache[cacheKey].timestamp ELSE 0,
                         !.lookup = IF ~HasEntry(cacheKey) THEN "absent"
                                    ELSE IF CacheHit(cacheKey) THEN "fresh" ELSE "expired",
                         !.after = {q \in Callers : call[q].pc = "done"}]
       IN  IF CacheHit(cacheKey)
           THEN /\ call' = [call EXCEPT ![p] =
                              [started EXCEPT !.pc = "done",
                                              !.response = responseCache[cacheKey].response]]
                /\ responseCache' = AfterLookup(cacheKey)
           ELSE /\ call' = [call EXCEPT ![p] = LoopHead(started, 1)]
                /\ responseCache' = AfterLookup(cacheKey)
    /\ UNCHANGED <<maxRetries, now, ticks>>

\* A caller invokes generateFeedback with some context.
GenerateFeedback(p, context) ==
    /\ StartFeedback(p, context)
    /\ UNCHANGED <<validatorVars, practiceVars, normalizerVars>>

\* One fetch settles.  A 200 reply is parsed, cached under the call's key and
\* returned; a failure waits and retries, or leaves the loop.
FetchSettles(p, outcome) ==
    /\ call[p].pc = "fetching"
    /\ LET c == [call[p] EXCEPT !.lastData = DataKind(outcome)]
       IN  IF outcome.failure = ""
           THEN LET response == parseAIResponse(aiMessageOf(outcome))
                IN  /\ call' = [call EXCEPT ![p] =
                                  [c EXCEPT !.pc = "done", !.okAttempt = c.attempt,
                                            !.inserted = TRUE,
                                            !.response = response]]
                    /\ responseCache' = cacheResponse(responseCache, c.cacheKey, response)
           ELSE /\ call' = [call EXCEPT ![p] =
                              IF WaitsBeforeRetry(c.attempt)
                              THEN [c EXCEPT !.pc = "waiting", !.waits = c.waits + 1,
                                             !.wakeAt = now + RETRY_DELAY]
                              ELSE LoopHead(c, c.attempt + 1)]
                /\ UNCHANGED responseCache
    /\ UNCHANGED <<maxRetries, now, ticks>>
    /\ UNCHANGED <<validatorVars, practiceVars, normalizerVars>>

\* The 2-second timer of a waiting call fires: the loop goes on.
RetryWakes(p) ==
    /\ call[p].pc = "waiting"
    /\ now >= call[p].wakeAt
    /\ call' = [call EXCEPT ![p] = LoopHead(call[p], call[p].attempt + 1)]
    /\ UNCHANGED <<maxRetries, responseCache, now, ticks>>
    /\ UNCHANGED <<validatorVars, practiceVars, normalizerVars>>

\* Time passes.  The clock is only ever read against a timer's due time, or
\* against a stored timestamp by a lookup, so steps are modelled only while a
\* call waits, or an entry is stored and a call is still to come.
ClockSteps == {RETRY_DELAY, CACHE_TTL - RETRY_DELAY}

Tick(d) ==
    /\ ticks < MaxTicks
    /\ \/ \E p \in Callers : call[p].pc = "waiting"
       \/ responseCache # <<>> /\ \E p \in Callers : call[p].pc = "idle"
    /\ ticks' = ticks + 1
    /\ now' = now + d
    /\ UNCHANGED <<maxRetries, responseCache, call>>
    /\ UNCHANGED <<validatorVars, practiceVars, normalizerVars>>

AIInit ==
    /\ maxRetries \in 1..MaxRetriesTried
    /\ responseCache = <<>>
    /\ now = 0
    /\ ticks = 0
    /\ call = [p \in Callers |-> IdleCall]

AINext ==
    \/ \E p \in Callers, context \in Contexts : GenerateFeedback(p, context)
    \/ \E p \in Callers, outcome \in FetchOutcomes : FetchSettles(p, outcome)
    \/ \E p \in Callers : RetryWakes(p)
    \/ \E d \in ClockSteps : Tick(d)

----------------------------------------------------------------------------
(* AIService against a service whose reply is a function of the prompt *)

\* buildUserPrompt: the prompt as its literal parts, the characters of the
\* student's SQL (as submitted: neither trimmed nor case-folded) and the
\* interpolated error text or row count.
buildUserPrompt(context) ==
    <<"Exercise: ", context.exercisePrompt, "\n\nStudent SQL:\n">>
        \o context.userSQL
        \o <<"\n\n">>
        \o (IF context.validationError # ""
            THEN <<"Error: ", context.validationError, "\n">>
            ELSE IF context.userResult.present
                 THEN <<"Result: ", ToString(Len(context.userResult.rows)), " rows returned\n">>
                 ELSE <<>>)
        \o <<"Status: ", IF context.isCorrect THEN "SUCCESS" ELSE "NEEDS WORK",
             "\n\nProvide brief feedback:">>

\* A service whose reply is a function of the prompt: it answers 200 with the
\* prompt itself, so that different prompts get different replies.
ServiceReply(prompt) == [failure |-> "", hasResponse |-> TRUE, response |-> prompt]

\* The contexts handed to generateFeedback: those of Contexts and one that
\* differs from the first in the cells of its rows only.
PromptContexts == Contexts \cup {SQLContext(SqlPlain, OtherRow, TRUE, "")}

\* The fetch of a call is answered by the service.
ServiceAnswers(p) ==
    /\ call[p].pc = "fetching"
    /\ FetchSettles(p, ServiceReply(buildUserPrompt(call[p].context)))

FunctionalServiceNext ==
    \/ \E p \in Callers, context \in PromptContexts : GenerateFeedback(p, context)
    \/ \E p \in Callers : ServiceAnswers(p)
    \/ \E d \in ClockSteps : Tick(d)

----------------------------------------------------------------------------
(* AIService called again and again: calls that overlap an expiry *)

\* Contexts of repeated calls: two that share a cache key.
RepeatedContexts ==
    { SQLContext(SqlPlain,  OneRow,   TRUE,  ""),
      SQLContext(SqlPadded, OtherRow, TRUE,  "") }

\* How a fetch of a repeated call ends: it fails, or it is answered with text.
RepeatedOutcomes ==
    {outcome \in FetchOutcomes :
        outcome.failure = "network" \/ (outcome.failure = "" /\ DataKind(outcome) = "text")}

\* The caller, its call returned, is ready to call generateFeedback again.
CallAgain(p) ==
    /\ call[p].pc = "done"
    /\ call' = [call EXCEPT ![p] = IdleCall]
    /\ UNCHANGED <<maxRetries, responseCache, now, ticks>>
    /\ UNCHANGED <<validatorVars, practiceVars, normalizerVars>>

RepeatedCallsNext ==
    \/ \E p \in Callers, context \in RepeatedContexts : GenerateFeedback(p, context)
    \/ \E p \in Callers, outcome \in RepeatedOutcomes : FetchSettles(p, outcome)
    \/ \E p \in Callers : RetryWakes(p)
    \/ \E d \in ClockSteps : Tick(d)
    \/ \E p \in Callers : CallAgain(p)

----------------------------------------------------------------------------
(* AIService called with contexts that differ in what the key leaves out *)

\* An SQLContext with its difficulty tag and its optional expectedSQL and
\* expectedResult.
FullContext(context, difficulty, expectedSQL, expectedResult) ==
    [userSQL |-> context.userSQL, userResult |-> context.userResult,
     exercisePrompt |-> context.exercisePrompt, difficulty |-> difficulty,
     isCorrect |-> context.isCorrect, validationError |-> context.validationError,
     expectedSQL |-> expectedSQL, expectedResult |-> expectedResult]

\* Contexts that differ in letter case and white space of the SQL, in the cells
\* of the rows, in the difficulty and in the expected SQL and result; in the
\* order of the columns; in the number of rows; in the error and the verdict.
FingerprintContexts ==
    { FullContext(SQLContext(SqlPlain,  OneRow,   TRUE,  ""), "intro", <<>>, NoResult),
      FullContext(SQLContext(SqlPadded, OtherRow, TRUE,  ""), "advanced", SqlPlain, OneRow),
      FullContext(SQLContext(SqlPlain,  Swapped,  TRUE,  ""), "intro", <<>>, NoResult),
      FullContext(SQLContext(SqlPlain,  TwoRows,  TRUE,  ""), "intro", <<>>, NoResult),
      FullContext(SQLContext(SqlPlain,  NoResult, FALSE, EngineError), "intro", <<>>, NoResult) }

FingerprintNext ==
    \/ \E p \in Callers, context \in FingerprintContexts : GenerateFeedback(p, context)
    \/ \E p \in Callers : ServiceAnswers(p)
    \/ \E d \in ClockSteps : Tick(d)

----------------------------------------------------------------------------
(* AIService: overlapping calls against a service that answers or is down *)

\* The fetch of a call rejects: the service is unreachable.
ServiceDown(p) ==
    /\ call[p].pc = "fetching"
    /\ FetchSettles(p, [failure |-> "network", hasResponse |-> FALSE, response |-> <<>>])

OverlapNext ==
    \/ \E p \in Callers, context \in RepeatedContexts : GenerateFeedback(p, context)
    \/ \E p \in Callers : ServiceAnswers(p)
    \/ \E p \in Callers : ServiceDown(p)
    \/ \E p \in Callers : RetryWakes(p)
    \/ \E d \in ClockSteps : Tick(d)

----------------------------------------------------------------------------
(* The seeded store: the same text run twice, each time in a fresh store *)

\* The text SQLite stores for CURRENT_TIMESTAMP, t seconds after the epoch.
TimestampText(t) == "1970-01-01 00:00:0" \o ToString(t)

\* A row object of the users table.
UserRow(id, name, email, age, created_at) ==
    << <<"id", id>>, <<"name", name>>, <<"email", email>>, <<"age", age>>,
       <<"created_at", created_at>> >>

\* The users table after the INSERT: created_at takes its default, the
\* CURRENT_TIMESTAMP of the moment the store was seeded.
SeededUsers(at) ==
    << UserRow("1", "John Doe", "john@example.com", "30", TimestampText(at)),
       UserRow("2", "Jane Smith", "jane@example.com", "25", TimestampText(at)),
       UserRow("3", "Bob Johnson", "bob@example.com", "35", TimestampText(at)),
       UserRow("4", "Alice Wilson", "alice@example.com", "28", TimestampText(at)),
       UserRow("5", "Charlie Brown", "charlie@example.com", "32", TimestampText(at)) >>

SelectAllUsers ==
    <<"S","E","L","E","C","T"," ","*"," ","F","R","O","M"," ","U","S","E","R","S">>

SelectOne == <<"S","E","L","E","C","T"," ","1">>

\* What db.all(sql) hands to its callback for a store seeded at the given
\* second: SQLite answers as a function of the text and of the store's
\* content.  Keywords and table names are matched without regard to case, a
\* trailing semicolon is optional; texts other than the two queries known here
\* are answered with a syntax error.
SqliteAnswer(sql, at) ==
    LET statement == toUpperCase(trim(Statements(sql)[1]))
    IN  IF statement = SelectAllUsers
        THEN EngineOutcome(FALSE, "", SeededUsers(at), FALSE)
        ELSE IF statement = SelectOne
             THEN EngineOutcome(FALSE, "", << << <<"1", "1">> >> >>, FALSE)
             ELSE EngineOutcome(TRUE, "syntax error", <<>>, FALSE)

\* The db.all callback of a seeded store.
SeededCallback ==
    /\ query = "pending"
    /\ Callback(SqliteAnswer(vsql, seededAt))
    /\ UNCHANGED <<aiVars, practiceVars, normalizerVars>>

\* The wall clock passes one second between the two calls.
SecondPasses ==
    /\ ticks < MaxTicks
    /\ vpc = "returned" /\ db = "closed" /\ runs = <<>>
    /\ ticks' = ticks + 1
    /\ now' = now + 1000
    /\ UNCHANGED <<maxRetries, responseCache, call>>
    /\ UNCHANGED <<validatorVars, practiceVars, normalizerVars>>

\* run is called again with the text and options of the call that has ended: the
\* text passes pre-validation as before and a fresh store is constructed.
RunAgain ==
    /\ vpc = "returned" /\ db = "closed" /\ query = "done" /\ runs = <<>>
    /\ ~ShortCircuits(preValidateSQL(vsql))
    /\ runs' = <<[sql |-> vsql, maxRows |-> vmaxRows, value |-> vret]>>
    /\ OpenSandbox(vsql)
    /\ UNCHANGED <<vsql, vmaxRows>>
    /\ UNCHANGED <<aiVars, practiceVars, normalizerVars>>

IdempotenceNext ==
    \/ RunCall
    \/ TimeoutFire
    \/ SeededCallback
    \/ SecondPasses
    \/ RunAgain

----------------------------------------------------------------------------
(* ValidatorService.normalizeResult *)

\* Most columns, and most rows, of a result set handed to normalizeResult.
MaxColumns == 2
MaxResultRows == 2

\* Column names, listed in the order Array.prototype.sort puts them.
ColumnNames == <<"age", "id", "name">>

\* Cell values: single-digit numbers.
CellValues == {0, 1}

\* a sorts before b under the default sort of strings.
ColumnBefore(a, b) ==
    (CHOOSE i \in 1..Len(ColumnNames) : ColumnNames[i] = a)
        < (CHOOSE i \in 1..Len(ColumnNames) : ColumnNames[i] = b)

\* JSON.stringify(a).localeCompare(JSON.stringify(b)) < 0, for rows of equally
\* many single-digit cells: the first differing digit decides.
RowBefore(a, b) ==
    \E i \in 1..Len(a) :
        /\ \A j \in 1..(i - 1) : a[j] = b[j]
        /\ a[i] < b[i]

\* [...result.columns].sort()
sortedColumns(columns) ==
    [i \in 1..Len(columns) |->
        columns[CHOOSE k \in 1..Len(columns) :
                    Cardinality({j \in 1..Len(columns) : ColumnBefore(columns[j], columns[k])}) = i - 1]]

\* result.rows.map(row => [...row]).sort(by JSON text): the rows themselves,
\* each with its cells in the order it came with.
sortedRows(rows) ==
    [i \in 1..Len(rows) |->
        rows[CHOOSE k \in 1..Len(rows) :
                 /\ Cardinality({j \in 1..Len(rows) : RowBefore(rows[j], rows[k])}) < i
                 /\ i <= Cardinality({j \in 1..Len(rows) :
                                         RowBefore(rows[j], rows[k]) \/ rows[j] = rows[k]})]]

\* The elements joined by commas.
RECURSIVE join(_)
join(texts) ==
    IF texts = <<>> THEN ""
    ELSE IF Len(texts) = 1 THEN texts[1]
         ELSE texts[1] \o "," \o join(Tail(texts))

\* JSON.stringify of an array of numbers, of an array of strings, and of the
\* {columns, rows} object.
stringifyRow(row) == "[" \o join([i \in 1..Len(row) |-> ToString(row[i])]) \o "]"

stringifyColumns(columns) ==
    "[" \o join([i \in 1..Len(columns) |-> "\"" \o columns[i] \o "\""]) \o "]"

stringify(columns, rows) ==
    "{\"columns\":" \o stringifyColumns(columns) \o ",\"rows\":["
        \o join([i \in 1..Len(rows) |-> stringifyRow(rows[i])]) \o "]}"

normalizeResult(result) == stringify(sortedColumns(result.columns), sortedRows(result.rows))

\* The orderings of 1..n.
Orderings(n) == {f \in [1..n -> 1..n] : \A i, j \in 1..n : f[i] = f[j] => i = j}

\* Lists of distinct column names.
ColumnLists ==
    {columns \in UNION {[1..k -> {ColumnNames[i] : i \in 1..Len(ColumnNames)}] : k \in 1..MaxColumns} :
        \A i, j \in 1..Len(columns) : columns[i] = columns[j] => i = j}

\* The result sets handed to normalizeResult.
ResultSets ==
    UNION {{[columns |-> columns, rows |-> rows] :
               rows \in UNION {[1..n -> [1..Len(columns) -> CellValues]] : n \in 0..MaxResultRows}} :
           columns \in ColumnLists}

\* The result with its rows reordered by rowOrder and its columns by
\* columnOrder, each row's cells moved along with their columns.
Permuted(result, rowOrder, columnOrder) ==
    [columns |-> [c \in 1..Len(result.columns) |-> result.columns[columnOrder[c]]],
     rows |-> [r \in 1..Len(result.rows) |->
                 [c \in 1..Len(result.columns) |-> result.rows[rowOrder[r]][columnOrder[c]]]]]

NoResultSet == [columns |-> <<>>, rows |-> <<>>]

\* normalizeResult applied to the result set and to its permutation.
Normalize ==
    /\ nin.result # NoResultSet
    /\ nkeys = <<>>
    /\ nkeys' = <<normalizeResult(nin.result), normalizeResult(nin.permuted)>>
    /\ UNCHANGED nin
    /\ UNCHANGED <<validatorVars, aiVars, practiceVars>>

NormalizerIdle ==
    /\ nin = [result |-> NoResultSet, permuted |-> NoResultSet]
    /\ nkeys = <<>>

NormalizerInputs ==
    /\ \E result \in ResultSets :
         \E rowOrder \in Orderings(Len(result.rows)),
            columnOrder \in Orderings(Len(result.columns)) :
              nin = [result |-> result, permuted |-> Permuted(result, rowOrder, columnOrder)]
    /\ nkeys = <<>>

NormalizerNext == Normalize

----------------------------------------------------------------------------
(* PracticeService.evaluateSubmission *)

NoEvaluation ==
    [isCorrect |-> FALSE, feedback |-> <<>>, resultPreview |-> NoResult, suggestions |-> <<>>]

PracticeInit ==
    /\ epc = "idle"
    /\ esql = <<>>
    /\ eraised = "none"
    /\ eresult = NoEvaluation

\* The characters as one string.
RECURSIVE concat(_)
concat(chars) == IF chars = <<>> THEN "" ELSE chars[1] \o concat(Tail(chars))

\* validationResult.error as the string the validator built ("" for null).
MessageText(error) ==
    IF error = NoError THEN ""
    ELSE IF error.kind = "Operation not allowed"
         THEN "Operation not allowed: " \o concat(error.detail)
                  \o ". Only SELECT statements are permitted."
    ELSE IF error.kind = "Only SELECT statements are allowed. Found"
         THEN "Only SELECT statements are allowed. Found: " \o concat(error.detail)
    ELSE IF error.kind = "Multiple statements are not allowed"
         THEN "Multiple statements are not allowed. Please use a single SELECT statement."
    ELSE IF error.kind = "SQL Error"
         THEN "SQL Error: " \o error.detail[1]
    ELSE error.kind

\* The sql of the submitted EvaluateDto.
SubmittedTexts == Generated(1) \cup Scenarios \cup {SqlPadded}

\* prisma.exercise.findUnique: the exercise, null, or a rejected promise.
ExerciseLookups == {"found", "missing", "failed"}

InvalidUserId == "BadRequestException: Valid user ID is required"
ExerciseNotFound == "NotFoundException: Exercise not found"
EmptySql == "BadRequestException: SQL query cannot be empty"
PersistenceError == "PrismaClientError"

\* throw exception
Raise(exception) ==
    /\ epc' = "done"
    /\ eraised' = exception
    /\ UNCHANGED eresult

\* Mutant of isCorrectOf: every submission that was run counts as correct.
isCorrectOf_Always(validationResult) == TRUE

\* const isCorrect = validationResult.error === null;
isCorrectOf(validationResult) == validationResult.error = NoError

\* The aiContext built from the trimmed sql and the validation result.
aiContextOf(sql, validationResult) ==
    SQLContext(trim(sql), validationResult.result, isCorrectOf(validationResult),
               MessageText(validationResult.error))

\* evaluateSubmission up to its await of validatorService.run: the user id
\* check, the exercise lookup, the empty-sql check and the call of run with the
\* trimmed sql.
EvaluateSubmission ==
    /\ epc = "idle"
    /\ vpc = "idle"
    /\ \E userIdValid \in BOOLEAN, lookup \in ExerciseLookups, sql \in SubmittedTexts :
         /\ esql' = sql
         /\ IF ~userIdValid
            THEN Raise(InvalidUserId) /\ UNCHANGED validatorVars
            ELSE IF lookup = "failed"
            THEN Raise(PersistenceError) /\ UNCHANGED validatorVars
            ELSE IF lookup = "missing"
            THEN Raise(ExerciseNotFound) /\ UNCHANGED validatorVars
            ELSE IF trim(sql) = <<>>
            THEN Raise(EmptySql) /\ UNCHANGED validatorVars
            ELSE /\ epc' = "validating"
                 /\ UNCHANGED <<eraised, eresult>>
                 /\ Run(trim(sql))
                 /\ UNCHANGED runs
    /\ UNCHANGED <<aiVars, normalizerVars>>

\* run has returned: isCorrect and aiContext are computed and generateFeedback
\* is called.
AskFeedback ==
    /\ epc = "validating"
    /\ vpc = "returned"
    /\ epc' = "feedback"
    /\ StartFeedback(1, aiContextOf(esql, vret))
    /\ UNCHANGED <<esql, eraised, eresult>>
    /\ UNCHANGED <<validatorVars, normalizerVars>>

\* generateFeedback has returned: the attempt is stored and the evaluation
\* result returned, or prisma.attempt.create rejects and the call throws.
StoreAttempt ==
    /\ epc = "feedback"
    /\ call[1].pc = "done"
    /\ \E stored \in BOOLEAN :
         IF stored
         THEN /\ epc' = "done"
              /\ eresult' = [isCorrect |-> isCorrectOf(vret),
                             feedback |-> call[1].response.feedback,
                             resultPreview |-> vret.result,
                             suggestions |-> call[1].response.suggestions]
              /\ UNCHANGED eraised
         ELSE Raise(PersistenceError)
    /\ UNCHANGED esql
    /\ UNCHANGED <<validatorVars, aiVars, normalizerVars>>

PracticeNext ==
    \/ EvaluateSubmission
    \/ TimeoutFire
    \/ QueryCallback
    \/ AskFeedback
    \/ \E outcome \in FetchOutcomes : FetchSettles(1, outcome)
    \/ RetryWakes(1)
    \/ \E d \in ClockSteps : Tick(d)
    \/ StoreAttempt

----------------------------------------------------------------------------
(* Specifications *)

Init == ValidatorInit /\ AIInit /\ PracticeInit /\ NormalizerIdle

Next == ValidatorNext \/ AINext

Spec == Init /\ [][Next]_vars

\* ValidatorService alone, and AIService alone.
ValidatorStart == Init /\ maxRetries = 1

ValidatorSpec == ValidatorStart /\ [][ValidatorNext]_vars

AISpec == Init /\ [][AINext]_vars

\* run called twice with the same text, against the seeded store.
IdempotenceSpec == ValidatorStart /\ [][IdempotenceNext]_vars

\* normalizeResult applied to a result set and to a permutation of it.
NormalizerStart ==
    ValidatorInit /\ AIInit /\ maxRetries = 1 /\ PracticeInit /\ NormalizerInputs

NormalizerSpec == NormalizerStart /\ [][NormalizerNext]_vars

\* generateFeedback calls against a service that answers every prompt, always
\* the same way.
FunctionalServiceSpec == Init /\ [][FunctionalServiceNext]_vars

\* Callers that call generateFeedback again after each return.
RepeatedCallsSpec == Init /\ [][RepeatedCallsNext]_vars

\* generateFeedback calls whose contexts differ in what the key leaves out.
FingerprintSpec == Init /\ [][FingerprintNext]_vars

\* generateFeedback calls that overlap, the service answering or unreachable.
OverlapSpec == Init /\ [][OverlapNext]_vars

\* One evaluateSubmission call through validator, feedback and persistence.
PracticeSpec == Init /\ [][PracticeNext]_vars

----------------------------------------------------------------------------
(* Properties of the statement classifier and of run (ValidatorSpec) *)

Called == vpc # "idle"

SELECT == <<"S","E","L","E","C","T">>

\* The word occurs in the text at some position, letter case ignored.
OccursIn(text, word) ==
    \E i \in 1..Len(text) :
        /\ i + Len(word) - 1 <= Len(text)
        /\ \A j \in 1..Len(word) : UpperChar(text[i + j - 1]) = word[j]

ContainsForbidden(text) ==
    \E k \in 1..Len(FORBIDDEN_KEYWORDS) : OccursIn(text, FORBIDDEN_KEYWORDS[k])

\* The positions of the text that hold neither white space nor a separator, and
\* for each the number of separators before it: the segment it lies in.
SegmentOf(text, i) == Cardinality({j \in 1..(i - 1) : text[j] = ";"})
NonEmptySegments(text) ==
    {SegmentOf(text, i) : i \in {k \in 1..Len(text) : text[k] \notin WhiteSpace \cup {";"}}}

IsBlank(text) == \A i \in 1..Len(text) : text[i] \in WhiteSpace

\* The text with its leading white space removed.
LeftTrimmed(text) ==
    LET first == {i \in 1..Len(text) : text[i] \notin WhiteSpace}
    IN  IF first = {} THEN <<>>
        ELSE SubSeq(text, CHOOSE i \in first : \A j \in first : i <= j, Len(text))

BeginsWithSelect(text) ==
    LET t == LeftTrimmed(text)
    IN  Len(t) >= Len(SELECT) /\ \A j \in 1..Len(SELECT) : UpperChar(t[j]) = SELECT[j]

\* The leading token: the text, leading white space removed, up to its first
\* white-space character.
LeadingToken(text) ==
    LET t == LeftTrimmed(text)
        ws == {i \in 1..Len(t) : t[i] \in WhiteSpace}
    IN  IF ws = {} THEN t ELSE SubSeq(t, 1, (CHOOSE i \in ws : \A j \in ws : i <= j) - 1)

\* The trimmed, upper-cased text up to its first space character.
UpToFirstSpace(text) ==
    LET t == toUpperCase(trim(text))
        sp == {i \in 1..Len(t) : t[i] = " "}
    IN  IF sp = {} THEN t ELSE SubSeq(t, 1, (CHOOSE i \in sp : \A j \in sp : i <= j) - 1)

RejectionKinds == {"SQL query cannot be empty", "Operation not allowed",
                   "Only SELECT statements are allowed. Found",
                   "Multiple statements are not allowed"}

\* run returned a classifier rejection: a rejection message, no result, and
\* nothing was constructed or executed.
ReturnedRejection ==
    /\ vpc = "returned"
    /\ vret.error.kind \in RejectionKinds
    /\ ~vret.result.present
    /\ dbCreated = 0 /\ db = "none" /\ executed = <<>> /\ query = "none" /\ timer = "none"

ViolatesARule(text) ==
    \/ IsBlank(text)
    \/ ContainsForbidden(text)
    \/ ~BeginsWithSelect(text)
    \/ Cardinality(NonEmptySegments(text)) > 1

\* C1: every text that contains a forbidden keyword as a substring, in any letter
\* case and at any position, is rejected, and the reason names a forbidden
\* keyword that occurs in the text.
C1_ForbiddenKeywordRejected ==
    (Called /\ ContainsForbidden(vsql)) =>
        /\ ReturnedRejection
        /\ vret.error.kind = "Operation not allowed"
        /\ \E k \in 1..Len(FORBIDDEN_KEYWORDS) : vret.error.detail = FORBIDDEN_KEYWORDS[k]
        /\ OccursIn(vsql, vret.error.detail)

\* C1 witness: a text that begins with SELECT and holds CREATE only inside the
\* identifier created_at was rejected for the keyword.
C1_Witness ==
    /\ Called
    /\ BeginsWithSelect(vsql)
    /\ OccursIn(vsql, <<"C","R","E","A","T","E","D","_","A","T">>)
    /\ vret.error = ErrorOf("Operation not allowed", <<"C","R","E","A","T","E">>)

\* C2: only text the classifier allowed reaches the sandbox executor; a call
\* whose text is rejected creates no store, executes no query and returns the
\* rejection reason and no result.
C2_OnlyAllowedTextExecuted ==
    /\ (Called /\ ViolatesARule(vsql)) => ReturnedRejection
    /\ \A i \in 1..Len(executed) : ~ViolatesARule(executed[i])
    /\ dbCreated > 0 => ~ViolatesARule(vsql)

\* C2 witness: a call with two statements returned the rejection, nothing created.
C2_Witness ==
    /\ Called
    /\ ViolatesARule(vsql)
    /\ vret.error.kind = "Multiple statements are not allowed"
    /\ dbCreated = 0 /\ executed = <<>>

C4_MultipleStatementsRejected ==
    Called =>
        /\ Cardinality(NonEmptySegments(vsql)) > 1 => ReturnedRejection
        /\ Cardinality(NonEmptySegments(vsql)) <= 1 =>
              vret.error.kind # "Multiple statements are not allowed"

\* C4 witness: SELECT 1; SELECT 2; was rejected for holding several statements.
C4_Witness ==
    /\ Called
    /\ Cardinality(NonEmptySegments(vsql)) = 2
    /\ vsql[Len(vsql)] = ";"
    /\ vret.error.kind = "Multiple statements are not allowed"

----------------------------------------------------------------------------
(* Properties of generateFeedback (AISpec) *)

Done(p) == call[p].pc = "done"

\* The text is not the empty string.
NonEmptyText(feedback) == \E i \in 1..Len(feedback) : feedback[i] # ""

Mentions(feedback, text) == \E i \in 1..Len(feedback) : feedback[i] = text

\* q is a second call made after p returned with its result inserted, with the
\* same fingerprint, and looked the cache up before the entry's TTL had passed.
SecondAfterFirst(p, q) ==
    /\ p # q
    /\ Done(p) /\ Done(q)
    /\ call[p].inserted
    /\ p \in call[q].after
    /\ call[q].cacheKey = call[p].cacheKey
    /\ call[q].age < CACHE_TTL

\* C5 as stated: whatever the reasoning service does, the payload generateFeedback
\* returns has a non-empty feedback string.
C5_FeedbackNonEmpty ==
    \A p \in Callers : Done(p) => NonEmptyText(call[p].response.feedback)

\* C6 as stated: two sequential calls with the same fingerprint, the second
\* before the TTL expires, make exactly one outbound call in total.
C6_Original ==
    \A p, q \in Callers :
        SecondAfterFirst(p, q) => call[p].outbound + call[q].outbound = 1

\* C6 amended: the second call is served from the cache and makes no outbound
\* call, so the total is that of the first call alone, between one and
\* maxRetries.
C6_SecondCallServedFromCache ==
    \A p, q \in Callers :
        SecondAfterFirst(p, q) =>
            /\ call[q].lookup = "fresh"
            /\ call[q].outbound = 0
            /\ ~call[q].inserted
            /\ call[q].response = call[p].response
            /\ call[p].outbound + call[q].outbound = call[p].outbound
            /\ call[p].outbound >= 1 /\ call[p].outbound <= maxRetries

\* C6 witness: the first call succeeded on its second attempt, and a second call
\* with another context of the same fingerprint was served its payload.
C6_Witness ==
    \E p, q \in Callers :
        /\ SecondAfterFirst(p, q)
        /\ call[p].outbound = 2
        /\ call[q].context # call[p].context
        /\ call[q].response = call[p].response

\* C7: a call whose lookup hits makes no outbound call; a call that misses makes
\* at least one and at most maxRetries, and none after the attempt that succeeds.
C7_OutboundCallsBounded ==
    \A p \in Callers :
        /\ call[p].lookup = "fresh" => call[p].outbound = 0
        /\ call[p].lookup \in {"absent", "expired"} =>
              call[p].outbound >= 1 /\ call[p].outbound <= maxRetries
        /\ call[p].okAttempt > 0 => Done(p) /\ call[p].outbound = call[p].okAttempt

\* C7 witness: one call succeeded on its last attempt after maxRetries fetches,
\* another was served from the cache without a fetch.
C7_Witness ==
    \E p, q \in Callers :
        /\ Done(p) /\ call[p].lookup = "absent"
        /\ maxRetries = 2 /\ call[p].outbound = 2 /\ call[p].okAttempt = 2
        /\ Done(q) /\ call[q].lookup = "fresh" /\ call[q].outbound = 0

\* C8 as stated: when every attempt fails, or the service answers with no usable
\* text, the returned payload is the fallback payload of the fallback rule.
C8_UnusableReplyFallsBack ==
    \A p \in Callers :
        (Done(p) /\ call[p].lookup # "fresh" /\ call[p].lastData # "text") =>
            call[p].response = getFallbackResponse(call[p].context)

C10_ExpiredEntryEvicted ==
    [][\A p \in Callers :
         (call[p].pc = "idle" /\ call'[p].pc # "idle" /\ HasEntry(call'[p].cacheKey)) =>
            LET key == call'[p].cacheKey
                age == now - responseCache[key].timestamp
            IN  /\ age > CACHE_TTL =>
                      /\ call'[p].pc = "fetching"
                      /\ call'[p].response # responseCache[key].response
                      /\ key \notin DOMAIN responseCache'
                /\ age < CACHE_TTL =>
                      /\ call'[p].pc = "done"
                      /\ call'[p].response = responseCache[key].response
                      /\ call'[p].outbound = 0
                      /\ responseCache' = responseCache]_vars

\* C10 witness: a call found an entry older than the TTL, the entry is gone and
\* the call is asking the service.
C10_Witness ==
    \E p \in Callers :
        /\ call[p].lookup = "expired"
        /\ call[p].age > CACHE_TTL
        /\ call[p].pc = "fetching"
        /\ ~HasEntry(call[p].cacheKey)

----------------------------------------------------------------------------
(* Claims about the sandbox executor *)

Timeout == "Query execution timeout"

\* The messages run can resolve with.
RunErrorKinds ==
    RejectionKinds \cup {"Execution error", "SQL Error", "Result processing error", Timeout}

\* The value is an error message with no result.
IsFailure(value) ==
    /\ value.error # NoError
    /\ value.error.kind \in RunErrorKinds
    /\ value.result = NoResult

\* The value is a null error with a result of columns and rows.
IsSuccess(value) ==
    /\ value.error = NoError
    /\ value.result.present

\* The completion callback ran before the timer and settled the call.
CallbackFirst == timer = "cleared"

\* The timer fired before the completion callback.
TimerFirst == timer = "fired"

\* The values of an engine row, in the engine's column order.
ValuesOf(row) == [c \in 1..Len(row) |-> row[c][2]]

\* The smaller of two numbers.
Min(a, b) == IF a < b THEN a ELSE b

\* C11: run never throws: a call that has returned holds a definite value, an
\* error message with no result or a null error with a result, whatever the
\* engine did (success, engine error, result-processing error, timeout, store
\* not constructed); and a call that has not returned yet still has a callback
\* outstanding that will settle it.
C11_RunReturnsDefiniteValue ==
    /\ vpc = "returned" => (IsFailure(vret) \/ IsSuccess(vret))
    /\ vpc = "pending" => (timer = "armed" /\ vret = NotReturned)
    /\ vpc \in {"idle", "pending", "returned"}

\* C11 witness: the engine reported an error to the callback and run returned it
\* as a message without a result.
C11_Witness ==
    /\ vpc = "returned"
    /\ CallbackFirst
    /\ engine.err
    /\ vret.error.kind = "SQL Error"
    /\ vret.result = NoResult

\* C12: every store created by a call is closed by the time the call has
\* returned, on every exit path (success, engine error, result-processing error,
\* timeout).
C12_StoreClosedOnReturn ==
    (vpc = "returned" /\ dbCreated > 0) => (db = "closed" /\ closeCalls >= dbCreated)

\* C12 witness: the call returned through the timer callback, its store closed.
C12_Witness ==
    /\ vpc = "returned"
    /\ TimerFirst
    /\ query = "pending"
    /\ dbCreated = 1
    /\ db = "closed"

\* C13: when the timer fires before the completion callback the call returns the
\* timeout error and keeps it when the callback runs later; when the callback
\* runs first the timer is cancelled and the call returns the callback's value,
\* never the timeout error.
C13_TimerAndCallbackRace ==
    /\ TimerFirst =>
         /\ vpc = "returned"
         /\ vret = ValidationResult(ErrorOf(Timeout, <<>>), NoResult)
    /\ CallbackFirst =>
         /\ vpc = "returned"
         /\ vret.error.kind # Timeout
         /\ vret = CallbackResult(engine, vmaxRows)
         /\ ~ENABLED TimeoutFire

\* C13 witness: the timer fired first, the callback ran later with rows, and the
\* returned value is still the timeout error.
C13_Witness ==
    /\ TimerFirst
    /\ query = "done"
    /\ engine.rows # <<>>
    /\ vret.error.kind = Timeout

\* C14: when the callback settles the call with readable rows, the result is a
\* success holding the first min(maxRows, number of engine rows) rows in engine
\* order: exactly maxRows rows when the engine had more, all rows otherwise.
C14_RowCap ==
    (vpc = "returned" /\ CallbackFirst /\ ~engine.err /\ ~engine.unreadable) =>
        /\ IsSuccess(vret)
        /\ Len(vret.result.rows) = Min(vmaxRows, Len(engine.rows))
        /\ \A r \in 1..Len(vret.result.rows) : vret.result.rows[r] = ValuesOf(engine.rows[r])

\* C14 witness: the engine had more rows than maxRows and exactly maxRows came
\* back.
C14_Witness ==
    /\ vpc = "returned"
    /\ CallbackFirst
    /\ Len(engine.rows) > vmaxRows
    /\ IsSuccess(vret)
    /\ Len(vret.result.rows) = vmaxRows

\* C17: in a successful result every row has as many cells as there are column
\* names, cell c of row r is the value the engine row r holds for column c, and
\* there are at most maxRows rows.
C17_ResultShape ==
    (vpc = "returned" /\ IsSuccess(vret)) =>
        /\ Len(vret.result.rows) <= vmaxRows
        /\ \A r \in 1..Len(vret.result.rows) :
             /\ Len(vret.result.rows[r]) = Len(vret.result.columns)
             /\ \A c \in 1..Len(vret.result.columns) :
                  \E k \in 1..Len(engine.rows[r]) :
                     /\ engine.rows[r][k][1] = vret.result.columns[c]
                     /\ engine.rows[r][k][2] = vret.result.rows[r][c]

\* C17 witness: a success with two rows of two cells each under two column names.
C17_Witness ==
    /\ vpc = "returned"
    /\ IsSuccess(vret)
    /\ Len(vret.result.columns) = 2
    /\ Len(vret.result.rows) = 2
    /\ vret.result.rows[2] = <<"2", "Jane Smith">>

----------------------------------------------------------------------------
(* Claims about repeated execution (IdempotenceSpec) *)

\* Both calls of run were settled by the engine's callback, not by the timer.
BothAnswered ==
    /\ runs # <<>>
    /\ runs[1].value.error.kind # Timeout
    /\ vpc = "returned"
    /\ CallbackFirst

\* C15: the same allowed query executed twice, each time against a fresh store,
\* yields identical results (columns, rows, cell values), every-column
\* projections of the seeded tables included.
C15_RepeatedRunSameResult ==
    BothAnswered => vret = runs[1].value

----------------------------------------------------------------------------
(* Claims about normalizeResult (NormalizerSpec) *)

\* C16: a result set and any permutation of it (rows reordered, columns
\* reordered with their cells) are normalized to the same comparison key.
C16_PermutationSameKey ==
    nkeys # <<>> => nkeys[1] = nkeys[2]

----------------------------------------------------------------------------
(* Claims about evaluateSubmission (PracticeSpec) *)

\* The evaluateSubmission call has ended, by returning or by raising.
Ended == epc = "done"

Raised == Ended /\ eraised # "none"

Returned == Ended /\ eraised = "none"

\* The submitted statement was handed to run and refused by the classifier.
Disallowed == vpc = "returned" /\ vret.error.kind \in RejectionKinds

\* The statement was allowed and its execution failed.
ExecutionFailed ==
    /\ vpc = "returned"
    /\ vret.error.kind \in {"Execution error", "SQL Error", "Result processing error", Timeout}

\* The feedback service failed and the feedback is the fallback.
FeedbackFailed == call[1].pc = "done" /\ call[1].fellBack

\* The returned evaluation result carries the verdict, feedback and result
\* preview of this submission.
WellFormed ==
    /\ eresult.isCorrect = (vret.error = NoError)
    /\ eresult.feedback = call[1].response.feedback
    /\ eresult.suggestions = call[1].response.suggestions
    /\ eresult.resultPreview = vret.result

\* C18 as stated: the only errors raised are caller-input problems (empty SQL,
\* disallowed statement), a disallowed statement is raised as an input error, and
\* an execution or feedback-service failure is returned inside a well-formed
\* result.
C18_Original ==
    Ended =>
        /\ Raised => (eraised \in {InvalidUserId, ExerciseNotFound, EmptySql} \/ Disallowed)
        /\ Disallowed => Raised
        /\ (ExecutionFailed \/ FeedbackFailed) => (Returned /\ WellFormed)

\* C18 as the code has it: evaluateSubmission raises an input error for an
\* invalid user id, an unknown exercise or an empty SQL text, and nothing else
\* except a failure of the persistence layer; a disallowed statement reaches
\* run, is not raised, and comes back like an execution failure or a
\* feedback-service failure: inside a well-formed evaluation result that is not
\* correct (unless storing the attempt fails).
C18_RaisesInputOrPersistenceErrors ==
    Ended =>
        /\ eraised \in {"none", InvalidUserId, ExerciseNotFound, EmptySql, PersistenceError}
        /\ eraised = EmptySql => trim(esql) = <<>>
        /\ (Disallowed \/ ExecutionFailed \/ FeedbackFailed) =>
              /\ eraised \in {"none", PersistenceError}
              /\ Returned => WellFormed
        /\ (Disallowed \/ ExecutionFailed) => ~eresult.isCorrect
        /\ Returned => WellFormed

\* C18 witness: a statement with a forbidden keyword was submitted and
\* evaluateSubmission returned a result for it, not correct, with feedback.
C18_Witness ==
    /\ Returned
    /\ Disallowed
    /\ vret.error.kind = "Operation not allowed"
    /\ ~eresult.isCorrect
    /\ eresult.feedback # <<>>

----------------------------------------------------------------------------
(* Claims about the cache against a functional service (FunctionalServiceSpec) *)

\* What generateFeedback returns for the context with the cache removed: the
\* parsed reply of the service to the context's prompt.
Uncached(context) == parseAIResponse(aiMessageOf(ServiceReply(buildUserPrompt(context))))

\* The two contexts agree on everything the fingerprint is made of: the SQL
\* text trimmed and case-folded, the exercise prompt, the error, the verdict
\* and the columns and row count of the result.
SameFingerprintFields(a, b) ==
    /\ toLowerCase(trim(a.userSQL)) = toLowerCase(trim(b.userSQL))
    /\ a.exercisePrompt = b.exercisePrompt
    /\ a.validationError = b.validationError
    /\ a.isCorrect = b.isCorrect
    /\ a.userResult.present = b.userResult.present
    /\ a.userResult.columns = b.userResult.columns
    /\ Len(a.userResult.rows) = Len(b.userResult.rows)

\* Among the calls made so far, contexts of p's fingerprint give p's prompt.
FingerprintFixesPrompt(p) ==
    \A q \in Callers :
        (call[q].pc # "idle" /\ SameFingerprintFields(call[p].context, call[q].context))
            => buildUserPrompt(call[q].context) = buildUserPrompt(call[p].context)

----------------------------------------------------------------------------
(* Claims about overlapping calls around an expiry (RepeatedCallsSpec) *)

\* The step is caller p's lookup (generateFeedback up to its first await).
LooksUp(p) == call[p].pc = "idle" /\ call'[p].pc # "idle"

\* C20: the lookup of an expired entry is one step with respect to inserts by
\* other calls.  An entry leaves the cache only in the lookup step that finds it
\* expired, so an entry inserted after that observation is never removed by it;
\* that step reports a miss and leaves no entry behind under the key; and a
\* lookup returns a payload only from an entry that is present and fresh in the
\* very step, never from one found expired.
C20_ExpiredLookupAtomic ==
    [][/\ \A k \in DOMAIN responseCache :
            k \notin DOMAIN responseCache' =>
               /\ ~Fresh(responseCache[k].timestamp)
               /\ \E p \in Callers :
                     LooksUp(p) /\ call'[p].cacheKey = k /\ call'[p].lookup = "expired"
       /\ \A p \in Callers :
            (LooksUp(p) /\ call'[p].lookup = "expired") =>
               /\ call'[p].pc = "fetching"
               /\ call'[p].cacheKey \notin DOMAIN responseCache'
               /\ \A k \in DOMAIN responseCache' : responseCache'[k] = responseCache[k]
       /\ \A p \in Callers :
            (LooksUp(p) /\ call'[p].pc = "done") =>
               /\ HasEntry(call'[p].cacheKey)
               /\ Fresh(responseCache[call'[p].cacheKey].timestamp)
               /\ call'[p].response = responseCache[call'[p].cacheKey].response
               /\ responseCache' = responseCache]_vars

\* C20 witness: a call found its entry expired and is still waiting for the
\* service, while another call, started before, has since inserted a new entry
\* under the same key, which is in the cache.
C20_Witness ==
    \E p, q \in Callers :
        /\ p # q
        /\ call[p].lookup = "expired"
        /\ call[p].pc = "fetching"
        /\ call[q].pc = "done"
        /\ call[q].inserted
        /\ call[q].lookup = "absent"
        /\ call[q].cacheKey = call[p].cacheKey
        /\ HasEntry(call[p].cacheKey)
        /\ responseCache[call[p].cacheKey].timestamp = now

----------------------------------------------------------------------------
(* Claims about the retry loop and the cache's inserts (AISpec) *)

\* Where the call stands in the loop: attempts issued one by one, one wait
\* behind every attempt but the current one; a call that waits has failed an
\* attempt that was not the last; a call that fell back has issued all
\* maxRetries attempts with maxRetries - 1 waits.
RetryBookkeeping(c) ==
    /\ c.pc = "fetching" =>
          /\ c.attempt <= maxRetries
          /\ c.outbound = c.attempt
          /\ c.waits = c.attempt - 1
    /\ c.pc = "waiting" =>
          /\ c.attempt < maxRetries
          /\ c.outbound = c.attempt
          /\ c.waits = c.attempt
          /\ c.lastData = "failed"
    /\ c.fellBack =>
          /\ c.pc = "done"
          /\ c.outbound = maxRetries
          /\ c.waits = maxRetries - 1

\* The step is the failure of caller p's fetch, of whatever kind.
AttemptFails(p) ==
    /\ call[p].pc = "fetching"
    /\ call'[p].pc # "fetching"
    /\ ~call'[p].inserted

WithEntry(cache, key, response, timestamp) ==
    [k \in DOMAIN cache \cup {key} |->
        IF k = key THEN [response |-> response, timestamp |-> timestamp] ELSE cache[k]]

\* No call has inserted under the key.
NeverInserted(key) == \A r \in Callers : ~(call[r].inserted /\ call[r].cacheKey = key)

\* C22: a call that misses inserts exactly one entry, in the step in which one
\* of its attempts succeeds, under the key computed before the lookup; a failed
\* attempt and the fallback leave the cache unchanged, so that a later call with
\* the key of a call that fell back finds nothing and contacts the service; a
\* call that hits inserts nothing.
C22_InsertOnSuccessOnly ==
    [][\A p \in Callers :
         /\ (call[p].pc = "fetching" /\ call'[p].inserted) =>
               /\ ~call[p].inserted
               /\ call[p].lookup # "fresh"
               /\ call'[p].pc = "done"
               /\ call'[p].cacheKey = call[p].cacheKey
               /\ responseCache' = WithEntry(responseCache, call[p].cacheKey,
                                             call'[p].response, now)
         /\ (call[p].pc \in {"fetching", "waiting"} /\ call'[p] # call[p]
               /\ ~call'[p].inserted) =>
               responseCache' = responseCache
         /\ (call[p].pc # "done" /\ call'[p].fellBack) =>
               /\ call'[p].response = getFallbackResponse(call[p].context)
               /\ \A k \in DOMAIN responseCache' :
                     responseCache'[k].response # call'[p].response
         /\ (call[p].pc = "idle" /\ call'[p].pc = "done") =>
               /\ ~call'[p].inserted
               /\ responseCache' = responseCache
         /\ (call[p].pc = "idle" /\ call'[p].pc # "idle"
               /\ NeverInserted(call'[p].cacheKey)) =>
               /\ call'[p].lookup = "absent"
               /\ call'[p].pc = "fetching"
               /\ call'[p].outbound = 1]_vars

\* C22 witness: the first call fell back; the second, started after it with the
\* same key, found nothing, contacted the service and inserted its payload.
C22_Witness ==
    /\ call[1].fellBack
    /\ 1 \in call[2].after
    /\ call[2].cacheKey = call[1].cacheKey
    /\ call[2].lookup = "absent"
    /\ call[2].inserted
    /\ call[2].outbound >= 1
    /\ DOMAIN responseCache = {call[2].cacheKey}
    /\ responseCache[call[2].cacheKey].response = call[2].response

----------------------------------------------------------------------------
(* Claims about the classifier's leading-verb rule and rule order (ValidatorSpec) *)

\* The characters a word is made of.
WordChars ==
    {LowerLetters[i] : i \in 1..Len(LowerLetters)} \cup {UpperLetters[i] : i \in 1..Len(UpperLetters)}
        \cup {"0","1","2","3","4","5","6","7","8","9","_"}

\* The leading token of the text: its first word, leading white space removed,
\* in upper case.
LeadingVerb(text) ==
    LET t == LeftTrimmed(text)
        stops == {i \in 1..Len(t) : t[i] \notin WordChars}
    IN  toUpperCase(IF stops = {} THEN t
                    ELSE SubSeq(t, 1, (CHOOSE i \in stops : \A j \in stops : i <= j) - 1))

\* run let the text through its classifier.
Allowed == Called /\ vret.error.kind \notin RejectionKinds

\* C23: the classifier allows only text whose leading token, trimmed and letter
\* case ignored, is exactly SELECT; text that starts with the letters SELECT as
\* the prefix of a longer word is not allowed.
C23_AllowedOnlyExactSelect ==
    Allowed => LeadingVerb(vsql) = SELECT

\* The reason the rules give when applied in the order empty text, forbidden
\* keyword, leading verb, multiple statements, the first match deciding;
\* "null" when no rule matches.
FirstMatchingRule(text) ==
    IF IsBlank(text) THEN "SQL query cannot be empty"
    ELSE IF ContainsForbidden(text) THEN "Operation not allowed"
    ELSE IF ~BeginsWithSelect(text) THEN "Only SELECT statements are allowed. Found"
    ELSE IF Cardinality(NonEmptySegments(text)) > 1 THEN "Multiple statements are not allowed"
    ELSE "null"

\* C24: the rules are applied in the order empty text, forbidden keyword,
\* leading verb, multiple statements; the earliest matching rule gives the
\* reason, and a text that matches no rule is allowed.
C24_FirstMatchingRuleDecides ==
    Called =>
        IF FirstMatchingRule(vsql) = "null"
        THEN Allowed
        ELSE ReturnedRejection /\ vret.error.kind = FirstMatchingRule(vsql)

\* C24 witness: a text that holds a forbidden keyword, does not begin with
\* SELECT and has two statements is rejected for the keyword.
C24_Witness ==
    /\ Called
    /\ ContainsForbidden(vsql)
    /\ ~BeginsWithSelect(vsql)
    /\ Cardinality(NonEmptySegments(vsql)) > 1
    /\ ReturnedRejection
    /\ vret.error.kind = "Operation not allowed"

----------------------------------------------------------------------------
(* Claims about the aborted query (ValidatorSpec) *)

\* C25: once the timeout has fired for a call, the query is aborted and the
\* store reclaimed: the engine's completion callback of that call does not run
\* afterwards, and close is issued on the store exactly once.
C25_TimeoutAbortsQuery ==
    TimerFirst => (query = "pending" /\ closeCalls = 1)

----------------------------------------------------------------------------
(* Claims about the cache key (FingerprintSpec) *)

Started(p) == call[p].pc # "idle"

ColumnSet(columns) == {columns[i] : i \in 1..Len(columns)}

\* The two contexts agree on every field of the key but the order of the
\* columns: same set of column names, same row count.
SameButColumnOrder(a, b) ==
    /\ toLowerCase(trim(a.userSQL)) = toLowerCase(trim(b.userSQL))
    /\ a.exercisePrompt = b.exercisePrompt
    /\ a.validationError = b.validationError
    /\ a.isCorrect = b.isCorrect
    /\ a.userResult.present = b.userResult.present
    /\ ColumnSet(a.userResult.columns) = ColumnSet(b.userResult.columns)
    /\ Len(a.userResult.columns) = Len(b.userResult.columns)
    /\ Len(a.userResult.rows) = Len(b.userResult.rows)

\* C27: the key's result-shape descriptor is the column set and the row count:
\* contexts that agree on every other field of the key and have the same column
\* names in a different order, and as many rows, have the same key.
C27_ColumnOrderIgnored ==
    \A p, q \in Callers :
        (Started(p) /\ Started(q) /\ SameButColumnOrder(call[p].context, call[q].context)) =>
            call[p].cacheKey = call[q].cacheKey

----------------------------------------------------------------------------
(* Claims about the feedback of a failed submission (PracticeSpec) *)

\* The submission was refused by the classifier or failed in the sandbox, and
\* evaluateSubmission has returned its result.
FailedAndReturned == Returned /\ (Disallowed \/ ExecutionFailed)

\* C28: for a submission whose statement is rejected or whose execution fails,
\* the feedback text evaluateSubmission returns contains the validator's message
\* (the violated rule, or the engine's error text) verbatim, whether the
\* reasoning service answers or is down.
C28_FeedbackCarriesValidatorMessage ==
    FailedAndReturned => Mentions(eresult.feedback, MessageText(vret.error))

----------------------------------------------------------------------------
(* Claims about the prompt (PracticeSpec) *)

\* The number of characters of the student's SQL that the prompt carries: the
\* prompt set against the prompt of the same context with no SQL.
SqlCharactersIn(context) ==
    Len(buildUserPrompt(context)) - Len(buildUserPrompt([context EXCEPT !.userSQL = <<>>]))

Max(S) == CHOOSE n \in S : \A m \in S : m <= n

\* The length of the longest SQL text submitted, as handed to the services.
LongestSubmitted == Max({Len(trim(text)) : text \in SubmittedTexts})

\* C29: the prompt sent to the reasoning service is bounded: the submitted SQL
\* is included truncated to a fixed maximum length, so that, for some maximum
\* below the length of the longest text submitted, no prompt carries more
\* characters of the SQL than that.
C29_PromptCarriesTruncatedSql ==
    \E maximum \in 0..(LongestSubmitted - 1) :
        \A p \in Callers :
            call[p].outbound > 0 => SqlCharactersIn(call[p].context) <= maximum

----------------------------------------------------------------------------
(* Claims about overlapping calls (OverlapSpec) *)

\* p and q have the same key and overlap: each looked the cache up before the
\* other had returned.
Overlapped(p, q) ==
    /\ p # q
    /\ Started(p) /\ Started(q)
    /\ call[p].cacheKey = call[q].cacheKey
    /\ p \notin call[q].after /\ q \notin call[p].after

\* The payload of the call's own request: what the service answers to its
\* prompt, or the fallback for its context.
OwnPayload(c) ==
    IF c.fellBack THEN getFallbackResponse(c.context) ELSE Uncached(c.context)

\* The call returns in this step with a reply of the service.
Inserts(p) == call[p].pc # "done" /\ call'[p].pc = "done" /\ call'[p].inserted

\* C30 as stated: when two calls with the same key overlap, both miss and each
\* makes its own outbound attempts; after both have returned the cache holds
\* an entry under the key, carrying the payload of one of them, and each caller
\* has received the payload of its own call.
C30_Original ==
    \A p, q \in Callers :
        (Overlapped(p, q) /\ Done(p) /\ Done(q)) =>
            /\ call[p].lookup # "fresh" /\ call[q].lookup # "fresh"
            /\ call[p].outbound >= 1 /\ call[q].outbound >= 1
            /\ call[p].response = OwnPayload(call[p])
            /\ HasEntry(call[p].cacheKey)
            /\ responseCache[call[p].cacheKey].response \in {call[p].response, call[q].response}

\* C30 amended: when two calls with the same key overlap, both miss and each
\* makes its own outbound attempts and receives the payload of its own call;
\* each call that gets a reply overwrites the entry under the key with its own
\* payload and the time of its insert, and nothing else changes the cache, so
\* that after both have returned the cache holds the entry of the call that
\* inserted last, and no entry under the key when both fell back.
C30_LastInsertWins ==
    [][\A p, q \in Callers :
         Overlapped(p, q)' =>
            /\ call'[p].lookup # "fresh"
            /\ call'[p].outbound >= 1
            /\ Done(p)' => call'[p].response = OwnPayload(call'[p])
            /\ Inserts(p) =>
                  responseCache' = WithEntry(responseCache, call'[p].cacheKey,
                                             call'[p].response, now)
            /\ (~Inserts(p) /\ ~Inserts(q)) =>
                  responseCache'  = responseCache
            /\ (Done(p)' /\ Done(q)') =>
                  /\ (call'[p].cacheKey \in DOMAIN responseCache') <=> (call'[p].inserted \/ call'[q].inserted)
                  /\ (call'[p].cacheKey \in DOMAIN responseCache') =>
                        \E r \in {p, q} :
                            /\ call'[r].inserted
                            /\ responseCache'[call'[p].cacheKey].response = call'[r].response]_vars

\* C30 witness: two overlapping calls with the same key and different payloads
\* have both inserted; the first one, whose first attempt failed, inserted last
\* and its payload and the time of its insert are in the cache.
C30_Witness ==
    /\ Overlapped(1, 2) /\ Done(1) /\ Done(2)
    /\ call[1].inserted /\ call[2].inserted
    /\ call[1].response # call[2].response
    /\ responseCache[call[1].cacheKey].response = call[1].response
    /\ responseCache[call[1].cacheKey].timestamp > 0

====
